---- MODULE Spec2Model ----
(***************************************************************************)
(* Model of constants.py: GraphQL operation templates and their variable   *)
(* merging (_merge_vars, GQLOperation.with_variables, GQL_OPERATIONS), the *)
(* websocket topic addresses (WebsocketTopic, WEBSOCKET_TOPICS) and the    *)
(* topic capacity constants.                                               *)
(*                                                                         *)
(* Python objects live on a heap: a dict is a heap object reached through  *)
(* a reference, so that in-place mutation and aliasing are visible.        *)
(***************************************************************************)
EXTENDS Integers, Sequences, FiniteSets, TLC

VARIABLES
    heap,       \* ref -> dict object [ks: insertion order, m: key -> value]
    order,      \* the order in which the caller's dict literals list their keys
    overlay,    \* reference of the caller's `variables` dict (or NoRef)
    results,    \* the caller's live with_variables outcomes
    writes,     \* number of writes the caller has made into its results
    callers,    \* concurrent callers of with_variables (thread -> frame)
    table,      \* a hash table (dict) keyed by topics or raw strings
    found,      \* outcome of the last table lookup
    collide     \* whether the process's hash seed makes distinct keys collide

vars == <<heap, order, overlay, results, writes, callers, table, found, collide>>

(***************************************************************************)
(* Bounds                                                                  *)
(***************************************************************************)
MaxWidth == 2      \* keys per dict of a caller-built overlay
MaxLive == 2       \* results the caller keeps alive at once
MaxWrites == 1     \* writes the caller makes into its results
MaxEntries == 1    \* entries of the hash table
NumThreads == 2    \* concurrent callers of with_variables

(***************************************************************************)
(* Values.  A leaf is a tagged string; a dict is a reference on the heap   *)
(* (Ref) or, as a plain value detached from the heap, a tree (Dict).       *)
(***************************************************************************)
Str(s) == [t |-> "str", v |-> s]
Bool(b) == [t |-> "bool", v |-> b]
Num(n) == [t |-> "int", v |-> n]
Ellipsis == [t |-> "ellipsis", v |-> "..."]
None == [t |-> "none", v |-> "None"]
Ref(r) == [t |-> "ref", r |-> r]
Dict(d) == [t |-> "dict", d |-> d]
NoRef == <<"none", 0>>
EmptyDict == Dict(<<>>)

\* isinstance(v, dict), on heap values and on trees
IsDict(v) == v.t \in {"ref", "dict"}

(***************************************************************************)
(* Capacity constants (constants.py:107-112)                               *)
(***************************************************************************)
BASE_TOPICS == 3
MAX_WEBSOCKETS == 8
WS_TOPICS_LIMIT == 50
TOPICS_PER_CHANNEL == 2
MAX_TOPICS_PerConnection == MAX_WEBSOCKETS * (WS_TOPICS_LIMIT - BASE_TOPICS)
MAX_TOPICS == (MAX_WEBSOCKETS * WS_TOPICS_LIMIT) - BASE_TOPICS
MAX_CHANNELS == MAX_TOPICS \div TOPICS_PER_CHANNEL

(***************************************************************************)
(* The operation registry.  GQLOperation(name, sha256, variables) is the   *)
(* dict built by GQLOperation.__init__; variables = None leaves the        *)
(* "variables" key out.                                                    *)
(***************************************************************************)
GQLOperation(name, sha256, variables) ==
    LET init == ("operationName" :> Str(name)) @@
                ("extensions" :> Dict(
                    "persistedQuery" :> Dict(
                        ("version" :> Num("1")) @@
                        ("sha256Hash" :> Str(sha256)))))
    IN  IF variables = None THEN Dict(init)
        ELSE Dict(init @@ ("variables" :> variables))

GQL_OPERATIONS ==
    ("GetStreamInfo" :> GQLOperation(
        "VideoPlayerStreamInfoOverlayChannel",
        "e785b65ff71ad7b363b34878335f27dd9372869ad0c5740a130b9268bcdbe7e7",
        Dict("channel" :> Ellipsis))) @@
    ("ClaimCommunityPoints" :> GQLOperation(
        "ClaimCommunityPoints",
        "46aaeebe02c99afdf4fc97c7c0cba964124bf6b0af229395f1f6d1feed05b3d0",
        Dict("input" :> Dict(("claimID" :> Ellipsis) @@
                             ("channelID" :> Ellipsis))))) @@
    ("ClaimDrop" :> GQLOperation(
        "DropsPage_ClaimDropRewards",
        "a455deea71bdc9015b78eb49f4acfbce8baa7ccbedd28e549bb025bd0f751930",
        Dict("input" :> Dict("dropInstanceID" :> Ellipsis)))) @@
    ("Inventory" :> GQLOperation(
        "Inventory",
        "d86775d0ef16a63a33ad52e80eaff963b2d5b72fada7c991504a57496e1d8e4b",
        None)) @@
    ("Campaigns" :> GQLOperation(
        "ViewerDropsDashboard",
        "5a4da2ab3d5b47c9f9ce864e727b2cb346af1e3ea8b897fe8f704a97ff017619",
        Dict("fetchRewardCampaigns" :> Bool("False")))) @@
    ("NotificationsView" :> GQLOperation(
        "OnsiteNotifications_View",
        "db011164c7980ce0b90b04d8ecab0c27cfc8505170e2d6b1a5a51060a8e658df",
        Dict("input" :> EmptyDict))) @@
    ("NotificationsDelete" :> GQLOperation(
        "OnsiteNotifications_DeleteNotification",
        "13d463c831f28ffe17dccf55b3148ed8b3edbbd0ebadd56352f1ff0160616816",
        Dict("input" :> Dict("id" :> Str("")))))

OpNames == DOMAIN GQL_OPERATIONS

\* the order in which the registry literals and __init__ insert their keys
SourceOrder ==
    <<"operationName", "extensions", "persistedQuery", "version",
      "sha256Hash", "variables", "channel", "input", "claimID", "channelID",
      "dropInstanceID", "fetchRewardCampaigns", "id">>

\* the order in which the registry literal lists the operations
OpOrder ==
    <<"GetStreamInfo", "ClaimCommunityPoints", "ClaimDrop", "Inventory",
      "Campaigns", "NotificationsView", "NotificationsDelete">>

(***************************************************************************)
(* Heap                                                                    *)
(***************************************************************************)
\* the next unused reference of an owner's arena
Fresh(h, owner) ==
    <<owner, Cardinality({r \in DOMAIN h : r[1] = owner}) + 1>>

\* d[k] = v on the dict object at r (a new key is appended to the order)
SetItem(h, r, k, v) ==
    IF k \in DOMAIN h[r].m
    THEN [h EXCEPT ![r].m[k] = v]
    ELSE [h EXCEPT ![r] = [ks |-> Append(h[r].ks, k), m |-> h[r].m @@ (k :> v)]]

\* the keys of S in the order ord
SortKeys(S, ord) == SelectSeq(ord, LAMBDA k : k \in S)

\* In the recursive operators below the arguments are bound to their values
\* on entry (x \in {x_}), as Python evaluates the arguments of a call.

\* evaluation of a dict literal: builds the tree on the heap, keys inserted
\* in the order ord
RECURSIVE NewDict(_, _, _, _)
RECURSIVE NewDictItems(_, _, _, _, _, _)
NewDict(h_, owner, tree_, ord) ==
    CHOOSE res \in {
        IF tree.t # "dict" THEN [h |-> h, val |-> tree]
        ELSE LET r == Fresh(h, owner)
                 h1 == h @@ (r :> [ks |-> <<>>, m |-> <<>>])
             IN  [h |-> NewDictItems(h1, owner, r, tree.d,
                                     SortKeys(DOMAIN tree.d, ord), ord),
                  val |-> Ref(r)]
        : h \in {h_}, tree \in {tree_}} : TRUE
NewDictItems(h_, owner, r, d, ks_, ord) ==
    CHOOSE res \in {
        IF ks = <<>> THEN h
        ELSE LET k == Head(ks)
                 a == NewDict(h, owner, d[k], ord)
             IN  NewDictItems(SetItem(a.h, r, k, a.val), owner, r, d, Tail(ks), ord)
        : h \in {h_}, ks \in {ks_}} : TRUE

\* the value of a heap value as a tree (what == compares and json sends)
RECURSIVE Deref(_, _)
Deref(h_, val_) ==
    CHOOSE res \in {
        IF val.t # "ref" THEN val
        ELSE Dict([k \in DOMAIN h[val.r].m |-> Deref(h, h[val.r].m[k])])
        : h \in {h_}, val \in {val_}} : TRUE

\* a copy that is the object itself
deepcopy_alias(h_, owner, val_) == [h |-> h_, val |-> val_]
\* a shallow copy: a fresh top-level dict sharing the nested ones
deepcopy_shallow(h_, owner, val_) ==
    IF val_.t # "ref" THEN [h |-> h_, val |-> val_]
    ELSE LET r == Fresh(h_, owner)
         IN  [h |-> h_ @@ (r :> h_[val_.r]), val |-> Ref(r)]
\* copy.deepcopy: a fresh object for every dict reached, leaves are atomic
RECURSIVE deepcopy(_, _, _)
RECURSIVE deepcopyItems(_, _, _, _, _)
deepcopy(h_, owner, val_) ==
    CHOOSE res \in {
        IF val.t # "ref" THEN [h |-> h, val |-> val]
        ELSE LET r == Fresh(h, owner)
                 h1 == h @@ (r :> [ks |-> <<>>, m |-> <<>>])
             IN  [h |-> deepcopyItems(h1, owner, r, val.r, 1), val |-> Ref(r)]
        : h \in {h_}, val \in {val_}} : TRUE
deepcopyItems(h_, owner, r, src, i_) ==
    CHOOSE res \in {
        IF i > Len(h[src].ks) THEN h
        ELSE LET k == h[src].ks[i]
                 c == deepcopy(h, owner, h[src].m[k])
             IN  deepcopyItems(SetItem(c.h, r, k, c.val), owner, r, src, i + 1)
        : h \in {h_}, i \in {i_}} : TRUE

\* the module-level registry after import: every operation on the heap,
\* and GQL_OPERATIONS[name] as a reference
RECURSIVE LoadOperations(_, _)
LoadOperations(reg_, i_) ==
    CHOOSE res \in {
        IF i > Len(OpOrder) THEN reg
        ELSE LET a == NewDict(reg.h, "reg", GQL_OPERATIONS[OpOrder[i]], SourceOrder)
             IN  LoadOperations([h |-> a.h,
                                 ref |-> reg.ref @@ (OpOrder[i] :> a.val.r)],
                                i + 1)
        : reg \in {reg_}, i \in {i_}} : TRUE
Registry == LoadOperations([h |-> <<>>, ref |-> <<>>], 1)
RegHeap == Registry.h
OpRef == Registry.ref

(***************************************************************************)
(* _merge_vars (constants.py:55-76)                                        *)
(***************************************************************************)
NoErr == [kind |-> "none", key |-> ""]
RuntimeError(kind, k) == [kind |-> kind, key |-> k]
ShapeKinds == {"VarDictBaseNot", "BaseDictVarNot"}

\* lines 74-76: the first key of base_vars whose value is Ellipsis
_scan(h, b) ==
    LET unset == {i \in 1..Len(h[b].ks) : h[b].m[h[b].ks[i]] = Ellipsis}
    IN  IF unset = {} THEN NoErr
        ELSE RuntimeError("Unspecified",
                          h[b].ks[CHOOSE i \in unset : \A j \in unset : i <= j])

RECURSIVE _merge_vars(_, _, _)
RECURSIVE _merge_item(_, _, _, _)
RECURSIVE _merge_loop(_, _, _, _)
\* _merge_item without the check of a dict over a non-dict base value
_merge_item_overwrite(h_, b, k_, v_) ==
    CHOOSE res \in {
        LET base_vars == h[b].m
        IN  IF k \notin DOMAIN base_vars
            THEN [h |-> SetItem(h, b, k, v), err |-> NoErr]
            ELSE IF IsDict(v) /\ IsDict(base_vars[k])
            THEN _merge_vars(h, base_vars[k].r, v.r)
            ELSE IF ~IsDict(v) /\ IsDict(base_vars[k])
            THEN [h |-> h, err |-> RuntimeError("BaseDictVarNot", k)]
            ELSE [h |-> SetItem(h, b, k, v), err |-> NoErr]
        : h \in {h_}, k \in {k_}, v \in {v_}} : TRUE
\* _merge_item replacing a base dict by the overlay's instead of recursing
_merge_item_replace(h_, b, k_, v_) ==
    CHOOSE res \in {
        LET base_vars == h[b].m
        IN  IF k \notin DOMAIN base_vars
            THEN [h |-> SetItem(h, b, k, v), err |-> NoErr]
            ELSE IF IsDict(v)
            THEN IF IsDict(base_vars[k]) \/ base_vars[k] = Ellipsis
                 THEN [h |-> SetItem(h, b, k, v), err |-> NoErr]
                 ELSE [h |-> h, err |-> RuntimeError("VarDictBaseNot", k)]
            ELSE IF IsDict(base_vars[k])
            THEN [h |-> h, err |-> RuntimeError("BaseDictVarNot", k)]
            ELSE [h |-> SetItem(h, b, k, v), err |-> NoErr]
        : h \in {h_}, k \in {k_}, v \in {v_}} : TRUE
\* lines 58-72: the loop body for one item (k, v) of vars
_merge_item(h_, b, k_, v_) ==
    CHOOSE res \in {
        LET base_vars == h[b].m
        IN  IF k \notin DOMAIN base_vars
            THEN [h |-> SetItem(h, b, k, v), err |-> NoErr]
            ELSE IF IsDict(v)
            THEN IF IsDict(base_vars[k])
                 THEN _merge_vars(h, base_vars[k].r, v.r)
                 ELSE IF base_vars[k] = Ellipsis
                 THEN [h |-> SetItem(h, b, k, v), err |-> NoErr]
                 ELSE [h |-> h, err |-> RuntimeError("VarDictBaseNot", k)]
            ELSE IF IsDict(base_vars[k])
            THEN [h |-> h, err |-> RuntimeError("BaseDictVarNot", k)]
            ELSE [h |-> SetItem(h, b, k, v), err |-> NoErr]
        : h \in {h_}, k \in {k_}, v \in {v_}} : TRUE
\* line 57: the items of vars from position i on, in insertion order
_merge_loop(h_, b_, vr_, i_) ==
    CHOOSE res \in {
        IF i > Len(h[vr].ks) THEN [h |-> h, err |-> NoErr]
        ELSE LET k == h[vr].ks[i]
                 r == _merge_item(h, b, k, h[vr].m[k])
             IN  IF r.err # NoErr THEN r ELSE _merge_loop(r.h, b, vr, i + 1)
        : h \in {h_}, b \in {b_}, vr \in {vr_}, i \in {i_}} : TRUE
\* lines 55-76
_merge_vars(h_, b_, vr_) ==
    CHOOSE res \in {
        LET r == _merge_loop(h, b, vr, 1)
        IN  IF r.err # NoErr THEN r ELSE [h |-> r.h, err |-> _scan(r.h, b)]
        : h \in {h_}, b \in {b_}, vr \in {vr_}} : TRUE

(***************************************************************************)
(* GQLOperation.with_variables (constants.py:230-237)                      *)
(***************************************************************************)
\* with_variables leaving the key out when there is nothing to put in it
with_variables_omit(h, owner, self, variables) ==
    LET c == deepcopy(h, owner, Ref(self))
        modified == c.val.r
    IN  IF "variables" \in DOMAIN h[self].m
        THEN LET existing_variables == c.h[modified].m["variables"]
                 r == _merge_vars(c.h, existing_variables.r, variables)
             IN  [h |-> r.h, err |-> r.err, ret |-> modified]
        ELSE IF h[variables].ks = <<>>
        THEN [h |-> c.h, err |-> NoErr, ret |-> modified]
        ELSE [h |-> SetItem(c.h, modified, "variables", Ref(variables)),
              err |-> NoErr, ret |-> modified]
\* returns [h: the heap after the call, err: the error raised or NoErr,
\* ret: the reference returned]
with_variables(h, owner, self, variables) ==
    LET c == deepcopy(h, owner, Ref(self))
        modified == c.val.r
    IN  IF "variables" \in DOMAIN h[self].m
        THEN LET existing_variables == c.h[modified].m["variables"]
                 r == _merge_vars(c.h, existing_variables.r, variables)
             IN  [h |-> r.h, err |-> r.err, ret |-> modified]
        ELSE [h |-> SetItem(c.h, modified, "variables", Ref(variables)),
              err |-> NoErr, ret |-> modified]

(***************************************************************************)
(* The caller: builds a `variables` dict and specializes operations        *)
(***************************************************************************)
TopKeys == {"channel", "input", "fetchRewardCampaigns"}
NestedKeys == {"dropInstanceID", "id"}
Leaves == {Str("x"), Ellipsis}

\* the dicts with at most w keys of K and values of V
DictsOver(K, V, w) ==
    UNION {[S -> V] : S \in {T \in SUBSET K : Cardinality(T) <= w}}
NestedTrees == {Dict(d) : d \in DictsOver(NestedKeys, Leaves, MaxWidth)}
Overlays == {Dict(d) : d \in DictsOver(TopKeys, Leaves \cup NestedTrees, MaxWidth)}

Reverse(s) == [i \in 1..Len(s) |-> s[Len(s) + 1 - i]]
KeyOrders == {SourceOrder, Reverse(SourceOrder)}

NoLookup == [probe |-> [kind |-> "none"], hit |-> FALSE, present |-> FALSE]

\* the heap without the objects of an arena
Drop(h, owner) == [r \in {q \in DOMAIN h : q[1] # owner} |-> h[r]]
Restrict(h, refs) == [r \in refs |-> h[r]]

\* one call GQL_OPERATIONS[name].with_variables(variables) by the caller
\* owning the arena; a raised error leaves the copy unreachable
Call(h, arena, name, variables) ==
    LET w == with_variables(h, arena, OpRef[name], variables)
    IN  [h |-> IF w.err = NoErr THEN w.h ELSE Restrict(w.h, DOMAIN h),
         res |-> [name |-> name,
                  arg |-> Deref(h, Ref(variables)),
                  err |-> w.err,
                  ret |-> IF w.err = NoErr THEN w.ret ELSE NoRef,
                  out |-> IF w.err = NoErr THEN Deref(w.h, Ref(w.ret)) ELSE None,
                  written |-> FALSE]]

\* the state after import
Start ==
    /\ heap = RegHeap
    /\ overlay = NoRef
    /\ results = <<>>
    /\ writes = 0
    /\ callers = <<>>
    /\ table = {}
    /\ found = NoLookup

Init == Start /\ order \in KeyOrders /\ collide = FALSE

\* the caller's current variables, as a tree
CurrentTree == IF overlay = NoRef THEN EmptyDict ELSE Deref(heap, Ref(overlay))

\* a tree with one key set to v, or removed when v is Absent
Absent == [t |-> "absent", v |-> ""]
Edited(tree, k, v) ==
    IF v = Absent THEN Dict([j \in DOMAIN tree.d \ {k} |-> tree.d[j]])
    ELSE Dict((k :> v) @@ tree.d)

\* the caller builds a new variables dict, letting go of what it held
NewOverlay(tree) ==
    /\ Cardinality(DOMAIN tree.d) <= MaxWidth
    /\ \E a \in {NewDict(Drop(Drop(heap, "call"), "vars"), "vars", tree, order)} :
          /\ heap' = a.h
          /\ overlay' = a.val.r
    /\ results' = <<>>
    /\ writes' = 0
    /\ UNCHANGED <<order, callers, table, found, collide>>

\* the caller specializes an operation, letting go of the previous result
Specialize(name) ==
    /\ overlay # NoRef
    /\ \E c \in {Call(Drop(heap, "call"), "call", name, overlay)} :
          /\ heap' = c.h
          /\ results' = <<c.res>>
    /\ UNCHANGED <<order, overlay, writes, callers, table, found, collide>>

Next ==
    \/ \E tree \in {Edited(CurrentTree, k, v) :
                       k \in TopKeys, v \in Leaves \cup NestedTrees \cup {Absent}} :
          NewOverlay(tree)
    \/ \E name \in OpNames : Specialize(name)

Spec == Init /\ [][Next]_vars

(***************************************************************************)
(* A caller that keeps its results and writes into them                    *)
(***************************************************************************)
\* the overlays with at most one key per dict
Chains ==
    {Dict(d) : d \in DictsOver(TopKeys,
                  Leaves \cup {Dict(e) : e \in DictsOver(NestedKeys, Leaves, 1)}, 1)}

\* the dicts reachable from the dict at r
RECURSIVE ReachableDicts(_, _)
ReachableDicts(h_, r_) ==
    CHOOSE res \in {
        {r} \cup UNION {ReachableDicts(h, h[r].m[k].r)
                          : k \in {j \in DOMAIN h[r].m : h[r].m[j].t = "ref"}}
        : h \in {h_}, r \in {r_}} : TRUE

\* the caller specializes an operation and keeps the result
SpecializeKeep(name) ==
    /\ overlay # NoRef
    /\ Len(results) < MaxLive
    /\ \E c \in {Call(heap, "call", name, overlay)} :
          /\ heap' = c.h
          /\ results' = Append(results, c.res)
    /\ UNCHANGED <<order, overlay, writes, callers, table, found, collide>>

\* the caller assigns d[k] = "w" in a dict d of the variable tree of result i
Write(i, d, k) ==
    /\ writes < MaxWrites
    /\ results[i].err = NoErr
    /\ d \in ReachableDicts(heap, heap[results[i].ret].m["variables"].r)
    /\ heap' = SetItem(heap, d, k, Str("w"))
    /\ results' = [results EXCEPT ![i].written = TRUE]
    /\ writes' = writes + 1
    /\ UNCHANGED <<order, overlay, callers, table, found, collide>>

NextOwn ==
    \/ \E tree \in Chains : overlay = NoRef /\ NewOverlay(tree)
    \/ \E name \in OpNames : SpecializeKeep(name)
    \/ \E i \in DOMAIN results, d \in DOMAIN heap, k \in TopKeys \cup NestedKeys :
          Write(i, d, k)

SpecOwn == Init /\ [][NextOwn]_vars

(***************************************************************************)
(* Concurrent callers of with_variables on one template.  A thread runs    *)
(* the deep copy, then one loop iteration of _merge_vars per step, then    *)
(* the scan (or the assignment of line 236).                               *)
(***************************************************************************)
Threads == 1..NumThreads
Arena(c) == "call" \o ToString(c)
VarsArena(c) == "vars" \o ToString(c)

ConcOverlays ==
    { EmptyDict,
      Dict("channel" :> Str("x")),
      Dict(("channel" :> Str("y")) @@ ("input" :> Dict("id" :> Str("y")))),
      Dict("input" :> Dict("dropInstanceID" :> Str("x"))),
      Dict(("input" :> Dict(("dropInstanceID" :> Str("y")) @@ ("id" :> Str("y"))))
           @@ ("fetchRewardCampaigns" :> Str("y"))),
      Dict(("fetchRewardCampaigns" :> Str("x")) @@ ("input" :> Str("x"))) }

\* the heap with every thread's variables dict built
RECURSIVE BuildOverlays(_, _, _)
BuildOverlays(h_, trees, c_) ==
    CHOOSE res \in {
        IF c > NumThreads THEN h
        ELSE BuildOverlays(NewDict(h, VarsArena(c), trees[c], order).h, trees, c + 1)
        : h \in {h_}, c \in {c_}} : TRUE

InitConc ==
    /\ order \in KeyOrders
    /\ overlay = NoRef
    /\ results = <<>>
    /\ writes = 0
    /\ table = {}
    /\ found = NoLookup
    /\ collide = FALSE
    /\ \E name \in OpNames, trees \in [Threads -> ConcOverlays] :
          /\ heap = BuildOverlays(RegHeap, trees, 1)
          /\ callers = [c \in Threads |->
                          [pc |-> "start", name |-> name, arg |-> trees[c],
                           variables |-> <<VarsArena(c), 1>>,
                           modified |-> NoRef, i |-> 1, err |-> NoErr]]

Frame(c) == callers[c]
Self(c) == OpRef[Frame(c).name]
ExistingVariables(c) == heap[Frame(c).modified].m["variables"].r

\* line 231
Copy(c) ==
    /\ Frame(c).pc = "start"
    /\ \E m \in {deepcopy(heap, Arena(c), Ref(Self(c)))} :
          /\ heap' = m.h
          /\ callers' = [callers EXCEPT
                ![c].modified = m.val.r,
                ![c].pc = IF "variables" \in DOMAIN heap[Self(c)].m
                          THEN "merge" ELSE "set"]
    /\ UNCHANGED <<order, overlay, results, writes, table, found, collide>>

\* lines 57-72: one iteration of the loop over variables.items()
MergeItem(c) ==
    /\ Frame(c).pc = "merge"
    /\ Frame(c).i <= Len(heap[Frame(c).variables].ks)
    /\ \E r \in {LET k == heap[Frame(c).variables].ks[Frame(c).i]
                 IN  _merge_item(heap, ExistingVariables(c), k,
                                 heap[Frame(c).variables].m[k])} :
          /\ heap' = r.h
          /\ callers' = IF r.err # NoErr
                        THEN [callers EXCEPT ![c].pc = "raised", ![c].err = r.err]
                        ELSE [callers EXCEPT ![c].i = @ + 1]
    /\ UNCHANGED <<order, overlay, results, writes, table, found, collide>>

\* lines 74-76, then line 237
Scan(c) ==
    /\ Frame(c).pc = "merge"
    /\ Frame(c).i > Len(heap[Frame(c).variables].ks)
    /\ \E e \in {_scan(heap, ExistingVariables(c))} :
          callers' = IF e # NoErr
                     THEN [callers EXCEPT ![c].pc = "raised", ![c].err = e]
                     ELSE [callers EXCEPT ![c].pc = "done"]
    /\ UNCHANGED <<heap, order, overlay, results, writes, table, found, collide>>

\* line 236, then line 237
SetVariables(c) ==
    /\ Frame(c).pc = "set"
    /\ heap' = SetItem(heap, Frame(c).modified, "variables", Ref(Frame(c).variables))
    /\ callers' = [callers EXCEPT ![c].pc = "done"]
    /\ UNCHANGED <<order, overlay, results, writes, table, found, collide>>

NextConc == \E c \in Threads : Copy(c) \/ MergeItem(c) \/ Scan(c) \/ SetVariables(c)

SpecConc == InitConc /\ [][NextConc]_vars

(***************************************************************************)
(* WebsocketTopic (constants.py:379-431).  Python values that meet a topic *)
(* in a comparison or a hash table: topics, strings and integers.          *)
(***************************************************************************)
WEBSOCKET_TOPICS ==
    [User |->
        [Presence |-> "presence",
         Drops |-> "user-drop-events",
         Notifications |-> "onsite-notifications",
         CommunityPoints |-> "community-points-user-v1"],
     Channel |->
        [Drops |-> "channel-drop-events",
         StreamState |-> "video-playback-by-id",
         StreamUpdate |-> "broadcast-settings-update",
         CommunityPoints |-> "community-points-channel-v1"]]

as_str(category, topic_name, target_id) ==
    WEBSOCKET_TOPICS[category][topic_name] \o "." \o ToString(target_id)

\* __init__; category and topic_name are kept to state the properties, the
\* object itself stores _id, _target_id and _process
WebsocketTopic(category, topic_name, target_id, process) ==
    [kind |-> "topic",
     _id |-> as_str(category, topic_name, target_id),
     _target_id |-> target_id,
     _process |-> process,
     category |-> category,
     topic_name |-> topic_name]
StrValue(s) == [kind |-> "str", s |-> s]
IntValue(n) == [kind |-> "int", n |-> n]

PyBool(b) == IF b THEN "True" ELSE "False"

\* __eq__ comparing the handlers too
__eq__handler(self, other) ==
    IF other.kind = "topic"
    THEN PyBool(self._id = other._id /\ self._process = other._process)
    ELSE IF other.kind = "str" THEN PyBool(self._id = other.s)
    ELSE "NotImplemented"
__eq__(self, other) ==
    IF other.kind = "topic" THEN PyBool(self._id = other._id)
    ELSE IF other.kind = "str" THEN PyBool(self._id = other.s)
    ELSE "NotImplemented"

\* what __hash__ hashes: the tuple (class name, _id)
__hash__(self) == <<"WebsocketTopic", self._id>>

\* a == b: the left operand's __eq__, then the reflected one, then identity
Eq(a, b) ==
    IF a.kind = "topic"
    THEN __eq__(a, b) = "True"
    ELSE IF b.kind = "topic"
    THEN __eq__(b, a) = "True"
    ELSE a = b

\* hash(x); a hash seed under which all hashes collide is possible
HashKey(x) ==
    IF x.kind = "topic" THEN __hash__(x)
    ELSE IF x.kind = "str" THEN <<x.s>>
    ELSE <<"int", ToString(x.n)>>
Hash(x) == IF collide THEN <<>> ELSE HashKey(x)

Categories == DOMAIN WEBSOCKET_TOPICS
TargetIds == {7, 42}
Processes == {"f", "g"}
TopicsNamed(names) ==
    UNION {{WebsocketTopic(c, n, id, p) :
               n \in DOMAIN WEBSOCKET_TOPICS[c] \cap names,
               id \in TargetIds, p \in Processes} : c \in Categories}
AllTopics == TopicsNamed({"Presence", "Drops", "Notifications", "CommunityPoints",
                          "StreamState", "StreamUpdate"})
AllStrings == {StrValue(t._id) : t \in AllTopics} \cup {StrValue("presence")}
\* the values the caller stores and looks up: the topics of the names both
\* categories have, their rendered strings, and other values
Keys == LET topics == TopicsNamed({"Drops", "CommunityPoints"})
        IN  topics \cup {StrValue(t._id) : t \in topics}
                   \cup {StrValue("presence"), IntValue(42)}

\* x in table: an entry with the same hash that compares equal
Contains(tbl, x) == \E e \in tbl : Hash(e) = Hash(x) /\ Eq(e, x)

\* table[x] = ...
Store(x) ==
    /\ ~Contains(table, x)
    /\ Cardinality(table) < MaxEntries
    /\ table' = table \cup {x}
    /\ UNCHANGED <<heap, order, overlay, results, writes, callers, found, collide>>

\* x in table
Lookup(x) ==
    /\ found' = [probe |-> x,
                 hit |-> Contains(table, x),
                 present |-> \E e \in table : Eq(e, x)]
    /\ UNCHANGED <<heap, order, overlay, results, writes, callers, table, collide>>

\* del table[x]
Remove(x) ==
    /\ Contains(table, x)
    /\ table' = {e \in table : ~(Hash(e) = Hash(x) /\ Eq(e, x))}
    /\ UNCHANGED <<heap, order, overlay, results, writes, callers, found, collide>>

InitTopic == Start /\ order = SourceOrder /\ collide \in BOOLEAN

NextTopic ==
    \/ \E x \in Keys : Store(x)
    \/ \E x \in Keys : Lookup(x)
    \/ \E x \in Keys : Remove(x)

SpecTopic == InitTopic /\ [][NextTopic]_vars

(***************************************************************************)
(* Properties of specialization                                            *)
(***************************************************************************)
HasVariables(name) == "variables" \in DOMAIN GQL_OPERATIONS[name].d
\* the template's default variable tree, or the empty tree
Defaults(name) ==
    IF HasVariables(name) THEN GQL_OPERATIONS[name].d["variables"] ELSE EmptyDict

RECURSIVE HasUnset(_)
HasUnset(tree) ==
    \/ tree = Ellipsis
    \/ /\ tree.t = "dict"
       /\ \E k \in DOMAIN tree.d : HasUnset(tree.d[k])

Ok(i) == results[i].err = NoErr
OutVariables(i) == results[i].out.d["variables"]

\* C1: whatever calls were made, succeeding or failing, every stored template
\* still has its operation name, integrity hash and default variable tree;
\* and a successful call with an empty overlay on a template whose defaults
\* hold no unset marker returns exactly the defaults.
C1_TemplateUnchanged ==
    /\ \A name \in OpNames : Deref(heap, Ref(OpRef[name])) = GQL_OPERATIONS[name]
    /\ \A i \in DOMAIN results :
          (/\ results[i].arg = EmptyDict
           /\ ~HasUnset(Defaults(results[i].name)))
          => Ok(i) /\ OutVariables(i) = Defaults(results[i].name)

\* a call has merged a non-empty overlay into its copy of a template
C1_Witness ==
    \E i \in DOMAIN results :
        /\ Ok(i)
        /\ HasVariables(results[i].name)
        /\ results[i].arg # EmptyDict
        /\ OutVariables(i) # Defaults(results[i].name)

\* C2: a returned payload holds no unset marker at any depth; in particular
\* a template with a nested unset placeholder, specialized with the empty
\* overlay, fails with the unspecified-variable error.
C2_NoUnsetInResult ==
    \A i \in DOMAIN results :
        /\ Ok(i) => ~HasUnset(OutVariables(i))
        /\ (HasUnset(Defaults(results[i].name)) /\ results[i].arg = EmptyDict)
              => results[i].err.kind = "Unspecified"

\* the two shape mismatches of a key k present in both trees
VarDictBaseNot(D, O, k) ==
    /\ k \in DOMAIN D.d \cap DOMAIN O.d
    /\ IsDict(O.d[k]) /\ ~IsDict(D.d[k]) /\ D.d[k] # Ellipsis
BaseDictVarNot(D, O, k) ==
    /\ k \in DOMAIN D.d \cap DOMAIN O.d
    /\ ~IsDict(O.d[k]) /\ IsDict(D.d[k])

\* a mismatch of the given kind at key k, at this level or where the merge
\* recurses (both values nested trees)
RECURSIVE MismatchAt(_, _, _, _)
MismatchAt(D, O, k, kind) ==
    \/ kind = "VarDictBaseNot" /\ VarDictBaseNot(D, O, k)
    \/ kind = "BaseDictVarNot" /\ BaseDictVarNot(D, O, k)
    \/ \E j \in DOMAIN D.d \cap DOMAIN O.d :
          /\ IsDict(D.d[j]) /\ IsDict(O.d[j])
          /\ MismatchAt(D.d[j], O.d[j], k, kind)
HasMismatch(D, O) ==
    \E k \in TopKeys \cup NestedKeys, kind \in ShapeKinds : MismatchAt(D, O, k, kind)

\* C5: a merge raises a shape error only for a key that is in one of the two
\* mismatch cases, and every overlay with such a key fails; an overlay tree
\* over an unset base value replaces it wholesale, and two trees are merged
\* key by key.
C5_ShapeMismatch ==
    \A i \in DOMAIN results :
        LET D == Defaults(results[i].name)
            O == results[i].arg
            e == results[i].err
        IN  HasVariables(results[i].name) =>
            /\ e.kind \in ShapeKinds => MismatchAt(D, O, e.key, e.kind)
            /\ HasMismatch(D, O) => ~Ok(i)
            /\ Ok(i) =>
                 \A k \in DOMAIN D.d \cap DOMAIN O.d :
                    /\ (D.d[k] = Ellipsis /\ IsDict(O.d[k]))
                          => OutVariables(i).d[k] = O.d[k]
                    /\ (IsDict(D.d[k]) /\ IsDict(O.d[k]))
                          => /\ IsDict(OutVariables(i).d[k])
                             /\ DOMAIN OutVariables(i).d[k].d =
                                   DOMAIN D.d[k].d \cup DOMAIN O.d[k].d

\* a call failed because the overlay holds a tree where the base holds a scalar
C5_Witness ==
    \E i \in DOMAIN results :
        /\ results[i].err.kind = "VarDictBaseNot"
        /\ VarDictBaseNot(Defaults(results[i].name), results[i].arg, results[i].err.key)

\* R is the structural overlay of O on D
RECURSIVE IsOverlayOf(_, _, _)
IsOverlayOf(R, D, O) ==
    /\ R.t = "dict"
    /\ DOMAIN R.d = DOMAIN D.d \cup DOMAIN O.d
    /\ \A k \in DOMAIN D.d \ DOMAIN O.d : R.d[k] = D.d[k]
    /\ \A k \in DOMAIN O.d :
          IF k \in DOMAIN D.d /\ IsDict(D.d[k]) /\ IsDict(O.d[k])
          THEN IsOverlayOf(R.d[k], D.d[k], O.d[k])
          ELSE R.d[k] = O.d[k]

\* C6: when the merge succeeds the result has, at every level, the keys of
\* both trees, the base value of every key the overlay lacks and the overlay
\* value of every key whose overlay value is not a tree.
C6_StructuralOverlay ==
    \A i \in DOMAIN results :
        Ok(i) => IsOverlayOf(OutVariables(i), Defaults(results[i].name), results[i].arg)

\* a successful merge that added a key at a nested level and kept a base key
C6_Witness ==
    \E i \in DOMAIN results :
        /\ Ok(i)
        /\ results[i].name = "NotificationsDelete"
        /\ "input" \in DOMAIN results[i].arg.d
        /\ IsDict(results[i].arg.d["input"])
        /\ DOMAIN results[i].arg.d["input"].d = {"dropInstanceID"}
        /\ DOMAIN OutVariables(i).d["input"].d = {"id", "dropInstanceID"}

PayloadKeys == {"operationName", "extensions"}

\* C7 as stated: a template without default variables, specialized with an
\* empty overlay, gives a payload without a variables key.
C7_VariablesOmitted ==
    \A i \in DOMAIN results :
        (~HasVariables(results[i].name) /\ results[i].arg = EmptyDict)
            => DOMAIN results[i].out.d = PayloadKeys

\* C7 amended: the stored template without default variables has exactly the
\* keys operationName and extensions, and specializing it always succeeds
\* with a payload that also has the key variables, holding the overlay (the
\* empty tree for an empty overlay).
C7_VariablesAlwaysSet ==
    /\ \A name \in OpNames :
          ~HasVariables(name) => DOMAIN heap[OpRef[name]].m = PayloadKeys
    /\ \A i \in DOMAIN results :
          ~HasVariables(results[i].name)
             => /\ Ok(i)
                /\ DOMAIN results[i].out.d = PayloadKeys \cup {"variables"}
                /\ OutVariables(i) = results[i].arg

\* a template without default variables was specialized with an empty overlay
C7_Witness ==
    \E i \in DOMAIN results :
        /\ ~HasVariables(results[i].name)
        /\ results[i].arg = EmptyDict
        /\ Ok(i)

\* what thread c gets when it runs alone on the registry as imported
Alone(c) ==
    LET a == NewDict(RegHeap, VarsArena(c), Frame(c).arg, order)
        w == with_variables(a.h, Arena(c), Self(c), a.val.r)
    IN  [err |-> w.err,
         out |-> IF w.err = NoErr THEN Deref(w.h, Ref(w.ret)) ELSE None]

\* C4: under every interleaving each concurrent caller ends with the result,
\* or the error, it gets when running alone, and the shared templates are
\* never changed.
C4_Isolation ==
    /\ \A name \in OpNames : Deref(heap, Ref(OpRef[name])) = GQL_OPERATIONS[name]
    /\ \A c \in DOMAIN callers :
          /\ Frame(c).pc = "done"
                => /\ Alone(c).err = NoErr
                   /\ Deref(heap, Ref(Frame(c).modified)) = Alone(c).out
          /\ Frame(c).pc = "raised" => Frame(c).err = Alone(c).err

\* one caller has returned a merged result while another, with a different
\* overlay, is in the middle of its merge loop
C4_Witness ==
    \E c1, c2 \in DOMAIN callers :
        /\ Frame(c1).pc = "done"
        /\ Frame(c1).arg # EmptyDict
        /\ HasVariables(Frame(c1).name)
        /\ Frame(c2).pc = "merge"
        /\ Frame(c2).i > 1
        /\ Frame(c2).arg # Frame(c1).arg

\* C10: writes into a result change neither the overlay the caller passed
\* in nor any other result obtained with that overlay.
C10_ResultOwned ==
    \A i \in DOMAIN results :
        /\ Deref(heap, Ref(overlay)) = results[i].arg
        /\ (Ok(i) /\ ~results[i].written)
              => Deref(heap, Ref(results[i].ret)) = results[i].out

\* the module has been imported: every operation of the registry exists
Imported == \A name \in OpNames : OpRef[name] \in DOMAIN heap

TopicsInState == {e \in table \cup {found.probe} : e.kind = "topic"}
Args(t) == <<t.category, t.topic_name, t._target_id>>

\* C8: a topic equals another topic exactly when their rendered strings are
\* equal, whatever their handlers, which is exactly when category, topic
\* name and target id are the same; it equals a string exactly when the
\* string is its rendered form.
C8_EqualityByRenderedString ==
    \A a \in TopicsInState :
        /\ a._id = as_str(a.category, a.topic_name, a._target_id)
        /\ \A b \in AllTopics :
              /\ Eq(a, b) <=> a._id = b._id
              /\ Eq(b, a) <=> a._id = b._id
              /\ Eq(a, b) <=> Args(a) = Args(b)
        /\ \A s \in AllStrings :
              /\ Eq(a, s) <=> s.s = a._id
              /\ Eq(s, a) <=> s.s = a._id

\* a stored topic was looked up with an equal topic wrapping another handler
C8_Witness ==
    /\ found.probe.kind = "topic"
    /\ found.present
    /\ \E e \in table :
          /\ e.kind = "topic"
          /\ Eq(e, found.probe)
          /\ e._process # found.probe._process

\* C9: values that compare equal hash equal, so a lookup finds an entry
\* stored under a key equal to the probe.
C9_HashConsistent ==
    /\ \A e \in table :
          (found.probe.kind # "none" /\ Eq(e, found.probe))
             => HashKey(e) = HashKey(found.probe)
    /\ found.present => found.hit
====
